---- MODULE Spec2Model ----
(***************************************************************************)
(* Model of plak-cli's text stores: the hosts file store (plak/domain.py)  *)
(* and the SSH client configuration store (plak/server.py).                *)
(*                                                                         *)
(* A file is a sequence of characters (one-character strings) or Absent.   *)
(* Python's string and file primitives (strip, re.split, readlines, `in`,  *)
(* startswith) are operators over such sequences, computed as CPython      *)
(* computes them.                                                          *)
(***************************************************************************)
EXTENDS Integers, Sequences, FiniteSets, TLC

\* ---------------------------------------------------------------------------
\* Bounds
\* ---------------------------------------------------------------------------
MaxLines == 2

\* ---------------------------------------------------------------------------
\* Python string primitives
\* ---------------------------------------------------------------------------
Absent == <<"<absent>">>

IsSpace(c) == c \in {" ", "\t", "\n"}

RECURSIVE Flatten(_)
Flatten(ss) == IF ss = <<>> THEN <<>> ELSE Head(ss) \o Flatten(Tail(ss))

lstrip(s) ==
    IF \A i \in 1..Len(s) : IsSpace(s[i]) THEN <<>>
    ELSE LET k == CHOOSE i \in 1..Len(s) :
                     ~IsSpace(s[i]) /\ \A j \in 1..(i-1) : IsSpace(s[j])
         IN  SubSeq(s, k, Len(s))

rstrip(s) ==
    IF \A i \in 1..Len(s) : IsSpace(s[i]) THEN <<>>
    ELSE LET k == CHOOSE i \in 1..Len(s) :
                     ~IsSpace(s[i]) /\ \A j \in (i+1)..Len(s) : IsSpace(s[j])
         IN  SubSeq(s, 1, k)

strip(s) == rstrip(lstrip(s))

startswith(s, p) == Len(p) <= Len(s) /\ SubSeq(s, 1, Len(p)) = p

\* Python's `sub in s`
Contains(sub, s) ==
    \E i \in 0..(Len(s) - Len(sub)) : SubSeq(s, i + 1, i + Len(sub)) = sub

\* re.split(r'\s+', s)
RECURSIVE re_split_ws(_)
re_split_ws(s) ==
    IF \A i \in 1..Len(s) : ~IsSpace(s[i]) THEN <<s>>
    ELSE LET i == CHOOSE k \in 1..Len(s) :
                     IsSpace(s[k]) /\ \A m \in 1..(k-1) : ~IsSpace(s[m])
             rest == lstrip(SubSeq(s, i, Len(s)))
         IN  <<SubSeq(s, 1, i - 1)>> \o re_split_ws(rest)

\* f.readlines(): lines keep their "\n"; a last line may lack it
RECURSIVE readlines(_)
readlines(content) ==
    IF content = <<>> THEN <<>>
    ELSE IF \A i \in 1..Len(content) : content[i] # "\n" THEN <<content>>
    ELSE LET k == CHOOSE i \in 1..Len(content) :
                     content[i] = "\n" /\ \A j \in 1..(i-1) : content[j] # "\n"
         IN  <<SubSeq(content, 1, k)>> \o readlines(SubSeq(content, k + 1, Len(content)))

\* ' '.join(words)
RECURSIVE join_sp(_)
join_sp(words) ==
    IF words = <<>> THEN <<>>
    ELSE IF Len(words) = 1 THEN words[1]
    ELSE words[1] \o <<" ">> \o join_sp(Tail(words))

\* ---------------------------------------------------------------------------
\* Hosts store: inputs
\* ---------------------------------------------------------------------------
\* Domain names; "ex" stands to "t.ex" as example.com to test.example.com
ex  == <<"e", "x">>
tex == <<"t", ".", "e", "x">>
dv  == <<"d", "v">>
st  == <<"s", "t">>

HostDomains == {ex, tex, dv}
HostIPs == {<<"1">>, <<"9">>}

HostLines ==
    { <<"1", " ">> \o ex,                                   \* one domain
      <<"1", " ">> \o tex,                                  \* only a partial-string hit for ex
      <<"2", " ">> \o dv \o <<" ">> \o ex \o <<" ">> \o st, \* several domains
      <<"2", "\t">> \o dv \o <<" ", " ">> \o tex,           \* several, tab and two spaces
      <<"3", " ">> \o ex \o <<" ">> \o ex,                  \* repeated domain
      <<"#", " ", "1", " ">> \o ex,                         \* comment
      <<>>,                                                 \* blank
      <<" ", "4", " ">> \o dv \o <<" ">>,                   \* surrounded by blanks
      ex }                                                  \* a single token

\* every text of at most n lines, the last one with or without its newline
RECURSIVE TextsOf(_, _)
TextsOf(lineSet, n) ==
    IF n = 0 THEN {<<>>}
    ELSE LET shorter == TextsOf(lineSet, n - 1)
             full == {t \in shorter : t = <<>> \/ t[Len(t)] = "\n"}
         IN  shorter \cup {t \o l : t \in full, l \in lineSet}
                     \cup {t \o l \o <<"\n">> : t \in full, l \in lineSet}

HostsFiles == TextsOf(HostLines, MaxLines)

\* a scratch file left behind by an earlier, failed run
StaleTemp == <<"7", " ">> \o st \o <<"\n">>

\* ---------------------------------------------------------------------------
\* State
\* ---------------------------------------------------------------------------
VARIABLES
    hosts,      \* content of the hosts file, or Absent
    temp,       \* content of /tmp/hosts.new, or Absent
    tempMode,   \* TRUE when /tmp/hosts.new is writable by the user
    pc,         \* position inside add_hosts_entry / delete_hosts_entry
    op,         \* "none", "add", "delete"
    ip,         \* argument
    domain,     \* argument
    outcome,    \* how the call ended
    reported,   \* the IP printed by the AlreadyExists message
    orig,       \* hosts file when the call started
    log,        \* steps that completed, in order
    failed      \* steps that failed ("interrupt" for a kill)

hvars == <<hosts, temp, tempMode, pc, op, ip, domain, outcome, reported, orig, log, failed>>

VARIABLES
    config,     \* content of ~/.ssh/config, or Absent
    sshDir,     \* TRUE when ~/.ssh exists
    configMode, \* permission bits of ~/.ssh/config, "none" when absent
    spc,        \* position inside add_ssh_config / delete_ssh_config
    sop,        \* "none", "add", "delete"
    sargs,      \* arguments of the call
    sret,       \* value returned: "True", "False", "None"; "none" before the return
    sorig,      \* config file when the call started
    slines,     \* delete_ssh_config's in-memory list `lines`
    matched,    \* delete_ssh_config's index i of the matched line (1-based), 0 if none
    profiles,   \* the list `hosts` that the view command got from parse_ssh_config
    wrote       \* TRUE once the call has opened the config file for writing

svars == <<config, sshDir, configMode, spc, sop, sargs, sret, sorig, slines, matched, profiles,
          wrote>>

VARIABLES
    keyfiles,   \* entries of ~/.ssh other than config: name -> "file" or "dir"
    kpc,        \* "idle" or "done"
    kop,        \* "none", "list", "details"
    kpath,      \* argument key_path of get_key_details
    keygen,     \* what ssh-keygen did for the call, NotRun if it was not called
    keys,       \* value returned by list_ssh_keys
    details     \* value returned by get_key_details: {} for None, {d} for dict d

kvars == <<keyfiles, kpc, kop, kpath, keygen, keys, details>>

VARIABLES
    shown,      \* the entries the hosts view command got from parse_hosts
    calls,      \* invocations of the tool completed so far
    ext,        \* "none", or the step another writer's change came before
    extText     \* what the other writer left in the file

xvars == <<shown, calls, ext, extText>>

vars == <<hvars, svars, kvars, xvars>>

\* nothing viewed
ViewAtRest == shown = <<>> /\ calls = 0 /\ ext = "none" /\ extText = <<>>

NotRun == [raised |-> FALSE, returncode |-> -1, stdout |-> <<>>]

\* the key store at rest, its call not started
KeysAtRest ==
    /\ kpc = "idle" /\ kop = "none" /\ kpath = <<>> /\ keygen = NotRun
    /\ keys = <<>> /\ details = {}

NoArgs == [name |-> <<>>, hostname |-> <<>>, user |-> <<>>, port |-> 0, identity_file |-> <<>>]

\* the SSH store at rest, its call not started
SshAtRest ==
    /\ spc = "idle" /\ sop = "none" /\ sargs = NoArgs /\ sret = "none"
    /\ sorig = config /\ slines = <<>> /\ matched = 0 /\ wrote = FALSE
    /\ profiles = <<>>

\* the hosts store at rest, its call not started
HostsAtRest ==
    /\ pc = "idle" /\ op = "none" /\ ip = <<>> /\ domain = <<>>
    /\ outcome = "none" /\ reported = <<>> /\ orig = hosts
    /\ log = <<>> /\ failed = {}

\* ---------------------------------------------------------------------------
\* parse_hosts
\* ---------------------------------------------------------------------------
\* only the first domain of a line yields an entry
RECURSIVE parse_lines_firstonly(_)
parse_lines_firstonly(lines) ==
    IF lines = <<>> THEN <<>>
    ELSE LET line == strip(Head(lines))
             parts == re_split_ws(line)
             here == IF line = <<>> \/ startswith(line, <<"#">>) THEN <<>>
                     ELSE IF Len(parts) < 2 THEN <<>>
                     ELSE <<[IP |-> parts[1], Domain |-> parts[2]]>>
         IN  here \o parse_lines_firstonly(Tail(lines))

RECURSIVE parse_lines(_)
parse_lines(lines) ==
    IF lines = <<>> THEN <<>>
    ELSE LET line == strip(Head(lines))
             parts == re_split_ws(line)
             here == IF line = <<>> \/ startswith(line, <<"#">>) THEN <<>>
                     ELSE IF Len(parts) < 2 THEN <<>>
                     ELSE [i \in 1..(Len(parts) - 1) |->
                              [IP |-> parts[1], Domain |-> parts[i + 1]]]
         IN  here \o parse_lines(Tail(lines))

parse_hosts(file) ==
    IF file = Absent THEN <<>> ELSE parse_lines(readlines(file))

\* ---------------------------------------------------------------------------
\* Hosts store: the privileged copy / edit / move path
\* ---------------------------------------------------------------------------
\* the step that follows a completed step
AfterStep(step) ==
    CASE step = "cp" -> "chmod"
      [] step = "chmod" -> "edit"
      [] step = "edit" -> "mv"
      [] step = "mv" -> "done"

\* a failed command is ignored and the next step runs (check=False)
OnCalledProcessError_unchecked(step) == AfterStep(step)

\* subprocess.run(..., check=True): a failing command raises CalledProcessError,
\* the except clause returns False and no later step runs
OnCalledProcessError(step) == "done"

StepFails(step) ==
    /\ failed' = failed \cup {step}
    /\ pc' = OnCalledProcessError(step)
    /\ outcome' = IF pc' = "done" THEN "ProcessError" ELSE outcome
    /\ UNCHANGED <<hosts, temp, tempMode, op, ip, domain, reported, orig, log>>

cp_noclobber(src, dst) == IF dst = Absent THEN src ELSE dst

\* what cp leaves in the destination: the source's content, whatever was there
cp(src, dst) == src

\* sudo cp hosts_path temp_file
sudo_cp ==
    /\ pc = "cp"
    /\ \/ /\ hosts # Absent
          /\ temp' = cp(hosts, temp)
          /\ tempMode' = IF temp = Absent THEN FALSE ELSE tempMode
          /\ log' = Append(log, "cp")
          /\ pc' = AfterStep("cp")
          /\ UNCHANGED <<hosts, op, ip, domain, outcome, reported, orig, failed>>
       \/ StepFails("cp")

\* sudo chmod 666 temp_file
sudo_chmod ==
    /\ pc = "chmod"
    /\ \/ /\ temp # Absent
          /\ tempMode' = TRUE
          /\ log' = Append(log, "chmod")
          /\ pc' = AfterStep("chmod")
          /\ UNCHANGED <<hosts, temp, op, ip, domain, outcome, reported, orig, failed>>
       \/ StepFails("chmod")

mv_noclobber(src, dst) == IF dst = Absent THEN src ELSE dst

\* what mv leaves at the destination: the source, replacing what was there
mv(src, dst) == src

\* sudo mv temp_file hosts_path
sudo_mv ==
    /\ pc = "mv"
    /\ \/ /\ temp # Absent
          /\ hosts' = mv(temp, hosts)
          /\ temp' = Absent
          /\ tempMode' = FALSE
          /\ log' = Append(log, "mv")
          /\ pc' = AfterStep("mv")
          /\ outcome' = "ok"
          /\ UNCHANGED <<op, ip, domain, reported, orig, failed>>
       \/ StepFails("mv")

\* an open()/read()/write() of the scratch file raises OSError, which the
\* except clause (SubprocessError only) does not catch; `content` is what the
\* scratch file holds when the error surfaces
EditRaises(content) ==
    /\ failed' = failed \cup {"edit"}
    /\ pc' = "done"
    /\ outcome' = "OSError"
    /\ temp' = content
    /\ UNCHANGED <<hosts, tempMode, op, ip, domain, reported, orig, log>>

\* what a write that stops early leaves in the file
PartialWrites(before, text) ==
    {before \o SubSeq(text, 1, k) : k \in {0, Len(text) \div 2}}

\* ---------------------------------------------------------------------------
\* add_hosts_entry
\* ---------------------------------------------------------------------------
\* the scan keeps going and ends on the last entry whose Domain is d
FirstConflict_last(entries, d) ==
    LET hits == {k \in 1..Len(entries) : entries[k].Domain = d}
    IN  IF hits = {} THEN 0 ELSE CHOOSE k \in hits : \A m \in hits : k >= m

\* index of the first entry whose Domain is d, 0 when there is none
FirstConflict(entries, d) ==
    LET hits == {k \in 1..Len(entries) : entries[k].Domain = d}
    IN  IF hits = {} THEN 0 ELSE CHOOSE k \in hits : \A m \in hits : k <= m

\* the write without its leading newline
AddedText_nolead(i, d) == i \o <<"\t">> \o d \o <<"\n">>

\* f.write(f"\n{ip}\t{domain}\n")
AddedText(i, d) == <<"\n">> \o i \o <<"\t">> \o d \o <<"\n">>

add_hosts_entry(i, d) ==
    /\ pc = "idle"
    /\ op' = "add" /\ ip' = i /\ domain' = d /\ orig' = hosts
    /\ LET entries == parse_hosts(hosts)
           k == FirstConflict(entries, d)
       IN  IF k # 0
           THEN /\ outcome' = "AlreadyExists"
                /\ reported' = entries[k].IP
                /\ pc' = "done"
           ELSE /\ pc' = "cp"
                /\ UNCHANGED <<outcome, reported>>
    /\ UNCHANGED <<hosts, temp, tempMode, log, failed>>
    /\ UNCHANGED <<svars, kvars, xvars>>

add_cp == op = "add" /\ sudo_cp /\ UNCHANGED <<svars, kvars, xvars>>

add_chmod == op = "add" /\ sudo_chmod /\ UNCHANGED <<svars, kvars, xvars>>

\* with open(temp_file, 'a') as f: f.write(...)
add_edit ==
    /\ op = "add" /\ pc = "edit"
    /\ LET before == IF temp = Absent THEN <<>> ELSE temp
           text == AddedText(ip, domain)
       IN  \/ /\ temp # Absent => tempMode
              /\ temp' = before \o text
              /\ tempMode' = (temp = Absent \/ tempMode)
              /\ log' = Append(log, "edit")
              /\ pc' = AfterStep("edit")
              /\ UNCHANGED <<hosts, op, ip, domain, outcome, reported, orig, failed>>
           \/ \E c \in (IF temp = Absent THEN {Absent} ELSE {temp}) \cup
                       (IF temp # Absent /\ ~tempMode THEN {} ELSE PartialWrites(before, text)) :
                  EditRaises(c)
    /\ UNCHANGED <<svars, kvars, xvars>>

add_mv == op = "add" /\ sudo_mv /\ UNCHANGED <<svars, kvars, xvars>>

\* ---------------------------------------------------------------------------
\* delete_hosts_entry
\* ---------------------------------------------------------------------------
\* the filter drops every line it matches, other domains included
delete_line_wholeline(line, d) ==
    IF Contains(d, line) /\ ~startswith(strip(line), <<"#">>)
    THEN [out |-> <<>>, modified |-> TRUE]
    ELSE [out |-> <<line>>, modified |-> FALSE]

\* one pass of the filter loop over one line: the lines appended to new_lines
\* and whether the line set `modified`
delete_line(line, d) ==
    IF Contains(d, line) /\ ~startswith(strip(line), <<"#">>)
    THEN LET parts == re_split_ws(strip(line))
             domains == SelectSeq(Tail(parts), LAMBDA x : x # d)
         IN  [out |-> IF Len(parts) > 2 /\ domains # <<>>
                      THEN <<parts[1] \o <<"\t">> \o join_sp(domains) \o <<"\n">>>>
                      ELSE <<>>,
              modified |-> TRUE]
    ELSE [out |-> <<line>>, modified |-> FALSE]

filter_lines_firsthit(lines, d) ==
    LET each == [k \in 1..Len(lines) |-> delete_line(lines[k], d)]
        hits == {k \in 1..Len(lines) : each[k].modified}
    IN  [new_lines |-> Flatten([k \in 1..Len(lines) |->
                         IF k \in hits /\ \A m \in hits : k <= m
                         THEN each[k].out ELSE <<lines[k]>>]),
         modified |-> hits # {}]

\* the whole filter loop
filter_lines(lines, d) ==
    LET each == [k \in 1..Len(lines) |-> delete_line(lines[k], d)]
    IN  [new_lines |-> Flatten([k \in 1..Len(lines) |-> each[k].out]),
         modified |-> \E k \in 1..Len(lines) : each[k].modified]

delete_hosts_entry(d) ==
    /\ pc = "idle"
    /\ op' = "delete" /\ domain' = d /\ orig' = hosts
    /\ pc' = "cp"
    /\ UNCHANGED <<hosts, temp, tempMode, ip, outcome, reported, log, failed>>
    /\ UNCHANGED <<svars, kvars, xvars>>

delete_cp == op = "delete" /\ sudo_cp /\ UNCHANGED <<svars, kvars, xvars>>

delete_chmod == op = "delete" /\ sudo_chmod /\ UNCHANGED <<svars, kvars, xvars>>

\* readlines, the filter loop, the NotFound return, the rewrite of the scratch file
delete_edit ==
    /\ op = "delete" /\ pc = "edit"
    /\ IF temp = Absent
       THEN EditRaises(Absent)
       ELSE LET r == filter_lines(readlines(temp), domain)
                text == Flatten(r.new_lines)
            IN  \/ /\ ~r.modified
                   /\ outcome' = "NotFound"
                   /\ pc' = "done"
                   /\ UNCHANGED <<hosts, temp, tempMode, op, ip, domain, reported, orig, log, failed>>
                \/ /\ r.modified /\ tempMode
                   /\ temp' = text
                   /\ log' = Append(log, "edit")
                   /\ pc' = AfterStep("edit")
                   /\ UNCHANGED <<hosts, tempMode, op, ip, domain, outcome, reported, orig, failed>>
                \/ /\ r.modified
                   /\ \E c \in {temp} \cup (IF tempMode THEN PartialWrites(<<>>, text) ELSE {}) :
                          EditRaises(c)
    /\ UNCHANGED <<svars, kvars, xvars>>

delete_mv == op = "delete" /\ sudo_mv /\ UNCHANGED <<svars, kvars, xvars>>

\* the process is killed before the step at pc has run (during it, for the edit)
Interrupt ==
    /\ pc \in {"cp", "chmod", "edit", "mv"}
    /\ pc' = "done"
    /\ outcome' = "Interrupted"
    /\ failed' = failed \cup {"interrupt"}
    /\ temp' \in {temp} \cup
                 (IF pc = "edit" /\ temp # Absent /\ tempMode
                  THEN IF op = "add" THEN PartialWrites(temp, AddedText(ip, domain))
                       ELSE PartialWrites(<<>>, SubSeq(temp, 1, Len(temp) \div 2))
                  ELSE {})
    /\ UNCHANGED <<hosts, tempMode, op, ip, domain, reported, orig, log>>
    /\ UNCHANGED <<svars, kvars, xvars>>

\* the view command: entries = parse_hosts(), then the table is printed
hosts_view ==
    /\ pc = "idle"
    /\ op' = "view" /\ orig' = hosts
    /\ shown' = parse_hosts(hosts)
    /\ pc' = "done"
    /\ UNCHANGED <<hosts, temp, tempMode, ip, domain, outcome, reported, log, failed>>
    /\ UNCHANGED <<svars, kvars, calls, ext, extText>>

\* ---------------------------------------------------------------------------
\* Specification of the hosts store: one invocation of the tool
\* ---------------------------------------------------------------------------
Init ==
    /\ hosts \in HostsFiles \cup {Absent}
    /\ temp \in {Absent, StaleTemp}
    /\ tempMode \in (IF temp = Absent THEN {FALSE} ELSE BOOLEAN)
    /\ HostsAtRest
    /\ config = Absent /\ sshDir = FALSE /\ configMode = "none"
    /\ SshAtRest
    /\ keyfiles = <<>> /\ KeysAtRest
    /\ ViewAtRest

Next ==
    \/ \E i \in HostIPs, d \in HostDomains : add_hosts_entry(i, d)
    \/ add_cp
    \/ add_chmod
    \/ add_edit
    \/ add_mv
    \/ \E d \in HostDomains : delete_hosts_entry(d)
    \/ delete_cp
    \/ delete_chmod
    \/ delete_edit
    \/ delete_mv
    \/ Interrupt
    \/ hosts_view

Spec == Init /\ [][Next]_vars

\* ---------------------------------------------------------------------------
\* Vocabulary of the properties of the hosts store
\* ---------------------------------------------------------------------------
\* d stands in line as a whole whitespace-delimited token
HasToken(line, d) ==
    \E i \in 1..Len(line) :
        LET j == i + Len(d) - 1
        IN  /\ j <= Len(line)
            /\ SubSeq(line, i, j) = d
            /\ (i = 1 \/ IsSpace(line[i - 1]))
            /\ (j = Len(line) \/ IsSpace(line[j + 1]))

\* the whitespace-delimited tokens of a line, left to right
RECURSIVE Tokens(_, _)
Tokens(line, cur) ==
    IF line = <<>> THEN (IF cur = <<>> THEN <<>> ELSE <<cur>>)
    ELSE IF IsSpace(Head(line))
         THEN (IF cur = <<>> THEN <<>> ELSE <<cur>>) \o Tokens(Tail(line), <<>>)
         ELSE Tokens(Tail(line), Append(cur, Head(line)))

IsComment(line) ==
    \E i \in 1..Len(line) : line[i] = "#" /\ \A j \in 1..(i - 1) : IsSpace(line[j])

\* a is b with some elements left out
RECURSIVE IsSubseq(_, _)
IsSubseq(a, b) ==
    IF a = <<>> THEN TRUE
    ELSE IF b = <<>> THEN FALSE
    ELSE IF Head(a) = Head(b) THEN IsSubseq(Tail(a), Tail(b))
    ELSE IsSubseq(a, Tail(b))

DeleteSucceeded == op = "delete" /\ pc = "done" /\ outcome = "ok"

AddSucceeded == op = "add" /\ pc = "done" /\ outcome = "ok"

\* C1: a successful delete_hosts_entry(domain) keeps every line that does not
\* hold `domain` as a whole whitespace-delimited token byte-identical and in
\* its original order (a partial-string hit inside another name changes nothing).
C1_OtherLinesKept ==
    DeleteSucceeded =>
        IsSubseq(SelectSeq(readlines(orig), LAMBDA l : ~HasToken(l, domain)),
                 readlines(hosts))

\* an entry line (IP and domains, no comment) that carries d among its domains
CarriesDomain(line, d) ==
    /\ ~IsComment(line)
    /\ LET t == Tokens(line, <<>>)
       IN  Len(t) >= 2 /\ \E k \in 2..Len(t) : t[k] = d

\* the line the rewrite is to leave: <ip>\t<other domains, single-spaced>, or nothing
RewrittenLine(line, d) ==
    LET t == Tokens(line, <<>>)
        others == SelectSeq(Tail(t), LAMBDA x : x # d)
    IN  IF others = <<>> THEN <<>>
        ELSE t[1] \o <<"\t">> \o join_sp(others) \o <<"\n">>

\* C3: after a successful delete_hosts_entry(domain), every entry line that
\* carried `domain` among its domains stands rewritten as <ip>\t<the other
\* domains in order, joined by single spaces>, and is gone when no other
\* domain was on it.
C3_MultiDomainRewrite ==
    DeleteSucceeded =>
        LET lines == readlines(orig)
        IN  hosts = Flatten([k \in 1..Len(lines) |->
                        IF CarriesDomain(lines[k], domain)
                        THEN RewrittenLine(lines[k], domain)
                        ELSE Flatten(delete_line(lines[k], domain).out)])

C3_Witness ==
    /\ DeleteSucceeded
    /\ \E k \in 1..Len(readlines(orig)) :
          /\ CarriesDomain(readlines(orig)[k], domain)
          /\ RewrittenLine(readlines(orig)[k], domain) # <<>>
    /\ \E k \in 1..Len(readlines(orig)) :
          /\ CarriesDomain(readlines(orig)[k], domain)
          /\ RewrittenLine(readlines(orig)[k], domain) = <<>>

\* C6: the hosts file changes only through the final move, and the move runs
\* only after copy, chmod and scratch edit all completed: once one of them has
\* failed, or the process was interrupted, no move has run and the hosts file
\* is the original.
C6_MoveOnlyAfterSuccess ==
    /\ hosts # orig => log = <<"cp", "chmod", "edit", "mv">>
    /\ (\E k \in 1..Len(log) : log[k] = "mv") =>
           /\ log = <<"cp", "chmod", "edit", "mv">>
           /\ failed = {}
    /\ failed \cap {"cp", "chmod", "edit", "interrupt"} # {} =>
           /\ hosts = orig
           /\ \A k \in 1..Len(log) : log[k] # "mv"

C6_Witness ==
    /\ pc = "done"
    /\ failed \cap {"chmod", "edit", "interrupt"} # {}
    /\ Len(log) >= 2
    /\ temp # Absent /\ temp # orig
    /\ hosts = orig

\* C7: add_hosts_entry(ip, domain) ends with AlreadyExists exactly when some
\* entry of parse_hosts has Domain = domain (case-sensitive); it then reports
\* the IP of the first such entry, runs no copy, edit or move step, and the
\* hosts file is unchanged.
C7_AlreadyExists ==
    (op = "add" /\ pc # "idle") =>
        LET entries == parse_hosts(orig)
            dup == {k \in 1..Len(entries) : entries[k].Domain = domain}
        IN  /\ outcome = "AlreadyExists" <=> dup # {}
            /\ outcome = "AlreadyExists" =>
                  /\ \E k \in dup : /\ \A m \in dup : k <= m
                                    /\ reported = entries[k].IP
                  /\ log = <<>> /\ failed = {}
                  /\ hosts = orig
                  /\ pc = "done"

C7_Witness ==
    /\ op = "add" /\ outcome = "AlreadyExists"
    /\ LET entries == parse_hosts(orig)
       IN  \E k, m \in 1..Len(entries) :
              /\ k < m
              /\ entries[k].Domain = domain /\ entries[m].Domain = domain
              /\ entries[k].IP # entries[m].IP

\* C8 as stated: a successful add keeps every earlier byte and appends the
\* line <ip>\t<domain>, which a blank line precedes, whatever the prior content.
C8_BlankLineAlways ==
    AddSucceeded =>
        LET lines == readlines(hosts)
            n == Len(lines)
        IN  /\ startswith(hosts, orig)
            /\ n >= 2
            /\ lines[n] = ip \o <<"\t">> \o domain \o <<"\n">>
            /\ strip(lines[n - 1]) = <<>>

\* C8 amended: a successful add keeps every earlier byte and appends
\* "\n<ip>\t<domain>\n"; the new line is the last one; the line before it is
\* blank when the prior content was empty or ended with a newline, and is
\* otherwise the prior last line, now terminated.
C8_AppendsEntry ==
    AddSucceeded =>
        LET lines == readlines(hosts)
            before == readlines(orig)
            n == Len(lines)
        IN  /\ hosts = orig \o <<"\n">> \o ip \o <<"\t">> \o domain \o <<"\n">>
            /\ n >= 2
            /\ lines[n] = ip \o <<"\t">> \o domain \o <<"\n">>
            /\ IF orig = <<>> \/ orig[Len(orig)] = "\n"
               THEN lines[n - 1] = <<"\n">> /\ n = Len(before) + 2
               ELSE /\ lines[n - 1] = before[Len(before)] \o <<"\n">>
                    /\ n = Len(before) + 1

C8_Witness ==
    /\ AddSucceeded
    /\ orig # <<>> /\ orig[Len(orig)] # "\n"
    /\ strip(readlines(orig)[Len(readlines(orig))]) # <<>>

\* C9: delete_hosts_entry(domain) ends with NotFound if and only if no
\* non-comment line holds `domain` as a whole whitespace-delimited token; on
\* NotFound no move has run and the hosts file is the original.
C9_NotFoundIff ==
    (op = "delete" /\ (outcome = "NotFound" \/ \E k \in 1..Len(log) : log[k] = "edit")) =>
        /\ outcome = "NotFound" <=>
               ~\E k \in 1..Len(readlines(orig)) :
                   /\ ~IsComment(readlines(orig)[k])
                   /\ HasToken(readlines(orig)[k], domain)
        /\ outcome = "NotFound" =>
               /\ hosts = orig
               /\ \A k \in 1..Len(log) : log[k] # "mv"

\* ---------------------------------------------------------------------------
\* SSH config store: inputs
\* ---------------------------------------------------------------------------
MaxConfigLines == 3

HostWord == <<"H", "o", "s", "t">>
Indent == <<" ", " ", " ", " ">>
K_Name == <<"N", "a", "m", "e">>
K_HostName == <<"H", "o", "s", "t", "N", "a", "m", "e">>
K_User == <<"U", "s", "e", "r">>
K_Port == <<"P", "o", "r", "t">>
K_IdentityFile == <<"I", "d", "e", "n", "t", "i", "t", "y", "F", "i", "l", "e">>

web == <<"w", "e", "b">>
web2 == <<"w", "e", "b", "2">>

\* Python's None
None == <<"<None>">>

SshNames == {web, web2}
SshHostnames == {<<"x">>}
SshUsers == {<<"u">>}
SshPorts == {22, 2222}
SshIdentities == {None, <<>>, <<"~", "/", "k">>}

ConfigLines ==
    { HostWord \o <<" ">> \o web,                    \* header of block web
      HostWord \o <<" ">> \o web2,                   \* header of block web2
      Indent \o K_HostName \o <<" ">> \o <<"y">>,    \* indented directive
      <<"\t">> \o K_User \o <<" ", " ">> \o <<"r">>, \* tab-indented directive
      <<>>,                                          \* blank
      K_User \o <<" ">> \o <<"v">>,                  \* unindented directive
      <<"#", " ", "c">>,                             \* unindented comment
      <<"h", "o", "s", "t", " ">> \o web,            \* lower-case header
      <<" ">> \o HostWord \o <<" ">> \o web,         \* indented header
      Indent \o K_Port \o <<"\t", "2", "2">> }        \* key and value separated by a tab

ConfigFiles == TextsOf(ConfigLines, MaxConfigLines)

\* ---------------------------------------------------------------------------
\* parse_ssh_config
\* ---------------------------------------------------------------------------
\* str.lower() on the letters the model's texts use
Lower(c) ==
    CASE c = "H" -> "h" [] c = "O" -> "o" [] c = "S" -> "s" [] c = "T" -> "t"
      [] c = "N" -> "n" [] c = "U" -> "u" [] c = "P" -> "p" [] c = "I" -> "i"
      [] c = "F" -> "f" [] OTHER -> c

\* (?i)^Host\s+ with re.MULTILINE matches at position i of content
HostMatchAt(content, i) ==
    /\ i = 1 \/ content[i - 1] = "\n"
    /\ i + 4 <= Len(content)
    /\ [k \in 1..4 |-> Lower(content[i + k - 1])] = <<"h", "o", "s", "t">>
    /\ IsSpace(content[i + 4])

\* last position of the match that starts at i (\s+ is greedy)
HostMatchEnd(content, i) ==
    CHOOSE e \in (i + 4)..Len(content) :
        /\ \A k \in (i + 4)..e : IsSpace(content[k])
        /\ e = Len(content) \/ ~IsSpace(content[e + 1])

\* re.split(r'(?i)^Host\s+', content, flags=re.MULTILINE), scanning from `from`
RECURSIVE re_split_host(_, _)
re_split_host(content, from) ==
    LET starts == {i \in from..Len(content) : HostMatchAt(content, i)}
    IN  IF starts = {} THEN <<SubSeq(content, from, Len(content))>>
        ELSE LET i == CHOOSE k \in starts : \A m \in starts : k <= m
                 e == HostMatchEnd(content, i)
             IN  <<SubSeq(content, from, i - 1)>> \o re_split_host(content, e + 1)

\* str.splitlines()
splitlines(s) ==
    LET ls == readlines(s)
    IN  [k \in 1..Len(ls) |->
            IF ls[k][Len(ls[k])] = "\n" THEN SubSeq(ls[k], 1, Len(ls[k]) - 1) ELSE ls[k]]

\* line.split(' ', 1)
split_sp1(line) ==
    IF \A i \in 1..Len(line) : line[i] # " " THEN <<line>>
    ELSE LET k == CHOOSE i \in 1..Len(line) :
                     line[i] = " " /\ \A j \in 1..(i - 1) : line[j] # " "
         IN  <<SubSeq(line, 1, k - 1), SubSeq(line, k + 1, Len(line))>>

\* a dict is the sequence of its <<key, value>> items in insertion order
HasKey(d, key) == \E k \in 1..Len(d) : d[k][1] = key

DictGet(d, key) == d[CHOOSE k \in 1..Len(d) : d[k][1] = key][2]

\* d[key] = value
DictSet(d, key, value) ==
    IF HasKey(d, key)
    THEN [k \in 1..Len(d) |-> IF d[k][1] = key THEN <<key, value>> ELSE d[k]]
    ELSE Append(d, <<key, value>>)

\* the loop over lines[1:] of a block
RECURSIVE parse_directives(_, _)
parse_directives(lines, host_info) ==
    IF lines = <<>> THEN host_info
    ELSE LET line == strip(Head(lines))
             parts == split_sp1(line)
         IN  IF line = <<>> \/ startswith(line, <<"#">>) \/ Len(parts) # 2
             THEN parse_directives(Tail(lines), host_info)
             ELSE parse_directives(Tail(lines),
                      DictSet(host_info, strip(parts[1]), strip(parts[2])))

RECURSIVE parse_blocks(_)
parse_blocks(blocks) ==
    IF blocks = <<>> THEN <<>>
    ELSE LET lines == splitlines(Head(blocks))
         IN  (IF lines = <<>> THEN <<>>
              ELSE <<parse_directives(Tail(lines), <<<<K_Name, strip(lines[1])>>>>)>>)
             \o parse_blocks(Tail(blocks))

parse_ssh_config(file) ==
    IF file = Absent THEN <<>> ELSE parse_blocks(Tail(re_split_host(file, 1)))

\* ---------------------------------------------------------------------------
\* add_ssh_config
\* ---------------------------------------------------------------------------
Digits == <<"0", "1", "2", "3", "4", "5", "6", "7", "8", "9">>

\* str(port) inside the f-string
RECURSIVE IntToStr(_)
IntToStr(n) ==
    IF n < 10 THEN <<Digits[n + 1]>>
    ELSE IntToStr(n \div 10) \o <<Digits[(n % 10) + 1]>>

\* `if identity_file:`
Truthy(v) == v # None /\ v # <<>>

\* the block written without its leading newline
BlockText_nolead(a) ==
    HostWord \o <<" ">> \o a.name \o <<"\n">>
    \o Indent \o K_HostName \o <<" ">> \o a.hostname \o <<"\n">>
    \o Indent \o K_User \o <<" ">> \o a.user \o <<"\n">>
    \o Indent \o K_Port \o <<" ">> \o IntToStr(a.port) \o <<"\n">>
    \o (IF Truthy(a.identity_file)
        THEN Indent \o K_IdentityFile \o <<" ">> \o a.identity_file \o <<"\n">>
        ELSE <<>>)

\* the text the five writes append
BlockText(a) ==
    <<"\n">> \o HostWord \o <<" ">> \o a.name \o <<"\n">>
    \o Indent \o K_HostName \o <<" ">> \o a.hostname \o <<"\n">>
    \o Indent \o K_User \o <<" ">> \o a.user \o <<"\n">>
    \o Indent \o K_Port \o <<" ">> \o IntToStr(a.port) \o <<"\n">>
    \o (IF Truthy(a.identity_file)
        THEN Indent \o K_IdentityFile \o <<" ">> \o a.identity_file \o <<"\n">>
        ELSE <<>>)

open_w_write(content, text) == text

\* with open(config_path, 'a') as f: the writes go after the present content
open_a_write(content, text) == content \o text

add_ssh_config(a) ==
    /\ spc = "idle"
    /\ sop' = "add" /\ sargs' = a /\ sorig' = config
    /\ sshDir' = TRUE
    /\ configMode' = IF config = Absent THEN "0600" ELSE configMode
    /\ config' = open_a_write(IF config = Absent THEN <<>> ELSE config,
                               BlockText(a))
    /\ wrote' = TRUE
    /\ sret' = "None"
    /\ spc' = "done"
    /\ UNCHANGED <<slines, matched, profiles>>
    /\ UNCHANGED <<hvars, kvars, xvars>>

\* ---------------------------------------------------------------------------
\* delete_ssh_config
\* ---------------------------------------------------------------------------
\* lines[i].strip().startswith(f"Host {name}")
HeaderMatches(line, name) == startswith(strip(line), HostWord \o <<" ">> \o name)

\* the first index the outer while loop stops at, 0 when it runs off the end
FindHost(lines, name) ==
    LET hits == {i \in 1..Len(lines) : HeaderMatches(lines[i], name)}
    IN  IF hits = {} THEN 0 ELSE CHOOSE i \in hits : \A m \in hits : i <= m

\* the inner while loop's condition on lines[j]
InBlock(line) == startswith(line, <<" ">>) \/ startswith(line, <<"\t">>) \/ strip(line) = <<>>

\* the index j the inner while loop stops at (one past the block)
BlockEnd(lines, i) ==
    CHOOSE j \in (i + 1)..(Len(lines) + 1) :
        /\ \A k \in (i + 1)..(j - 1) : InBlock(lines[k])
        /\ j = Len(lines) + 1 \/ ~InBlock(lines[j])

\* del lines[i:j]
DelRange(lines, i, j) == SubSeq(lines, 1, i - 1) \o SubSeq(lines, j, Len(lines))

\* the existence test, readlines and the search for the block
delete_ssh_config(name) ==
    /\ spc = "idle"
    /\ sop' = "delete" /\ sargs' = [NoArgs EXCEPT !.name = name] /\ sorig' = config
    /\ IF config = Absent
       THEN /\ sret' = "False" /\ spc' = "done"
            /\ UNCHANGED <<slines, matched>>
       ELSE LET lines == readlines(config)
                i == FindHost(lines, name)
            IN  IF i = 0
                THEN /\ sret' = "False" /\ spc' = "done"
                     /\ slines' = lines /\ matched' = 0
                ELSE /\ slines' = DelRange(lines, i, BlockEnd(lines, i))
                     /\ matched' = i
                     /\ spc' = "write"
                     /\ UNCHANGED sret
    /\ UNCHANGED <<config, sshDir, configMode, wrote, profiles>>
    /\ UNCHANGED <<hvars, kvars, xvars>>

\* with open(config_path, 'w') as f: f.writelines(lines); return True
delete_ssh_write ==
    /\ spc = "write"
    /\ config' = Flatten(slines)
    /\ wrote' = TRUE
    /\ sret' = "True"
    /\ spc' = "done"
    /\ UNCHANGED <<sshDir, configMode, sop, sargs, sorig, slines, matched, profiles>>
    /\ UNCHANGED <<hvars, kvars, xvars>>

\* the view command: hosts = parse_ssh_config(), then the table is printed
ssh_view ==
    /\ spc = "idle"
    /\ sop' = "view" /\ sorig' = config
    /\ profiles' = parse_ssh_config(config)
    /\ sret' = "None"
    /\ spc' = "done"
    /\ UNCHANGED <<config, sshDir, configMode, sargs, slines, matched, wrote>>
    /\ UNCHANGED <<hvars, kvars, xvars>>

\* ---------------------------------------------------------------------------
\* Specification of the SSH config store: one invocation of the tool
\* ---------------------------------------------------------------------------
SshInit ==
    /\ config \in ConfigFiles \cup {Absent}
    /\ sshDir \in (IF config = Absent THEN BOOLEAN ELSE {TRUE})
    /\ configMode = (IF config = Absent THEN "none" ELSE "0644")
    /\ SshAtRest
    /\ hosts = Absent /\ temp = Absent /\ tempMode = FALSE
    /\ HostsAtRest
    /\ keyfiles = <<>> /\ KeysAtRest
    /\ ViewAtRest

SshNext ==
    \/ \E n \in SshNames, h \in SshHostnames, u \in SshUsers, p \in SshPorts,
          f \in SshIdentities :
          add_ssh_config([name |-> n, hostname |-> h, user |-> u, port |-> p,
                          identity_file |-> f])
    \/ \E n \in SshNames : delete_ssh_config(n)
    \/ delete_ssh_write
    \/ ssh_view

SshSpec == SshInit /\ [][SshNext]_vars

\* ---------------------------------------------------------------------------
\* Vocabulary of the properties of the SSH config store
\* ---------------------------------------------------------------------------
SshDeleteSucceeded == sop = "delete" /\ spc = "done" /\ sret = "True"

\* the line is the header `Host <name>`, nothing but whitespace around it
IsHeaderOf(line, name) == strip(line) = HostWord \o <<" ">> \o name

\* the line is the header of a block with another name
IsOtherHeader(line, name) ==
    /\ startswith(strip(line), HostWord \o <<" ">>)
    /\ ~IsHeaderOf(line, name)

\* the line ends a block: not blank, and its first character is no space or tab
Unindented(line) == strip(line) # <<>> /\ line[1] \notin {" ", "\t"}

\* the first line after line i that ends the block, one past the end if none does
RangeEnd(lines, i) ==
    LET ends == {j \in (i + 1)..Len(lines) : Unindented(lines[j])}
    IN  IF ends = {} THEN Len(lines) + 1
        ELSE CHOOSE j \in ends : \A m \in ends : j <= m

\* the number a string of decimal digits writes
RECURSIVE DecimalValue(_)
DecimalValue(str) ==
    IF str = <<>> THEN 0
    ELSE 10 * DecimalValue(SubSeq(str, 1, Len(str) - 1))
         + ((CHOOSE k \in 1..10 : Digits[k] = str[Len(str)]) - 1)

\* C2: delete_ssh_config(name) matches a block only when its header is exactly
\* `Host <name>` (whitespace aside): the line it matched is that header, and
\* the headers of blocks with other names (web2 for web, web for web2) stay,
\* whatever the order of the blocks.
C2_ExactHeaderOnly ==
    SshDeleteSucceeded =>
        /\ IsHeaderOf(readlines(sorig)[matched], sargs.name)
        /\ SelectSeq(readlines(config), LAMBDA l : IsOtherHeader(l, sargs.name))
             = SelectSeq(readlines(sorig), LAMBDA l : IsOtherHeader(l, sargs.name))

\* C4: after a successful delete_ssh_config(name) the file is the original
\* line sequence minus one contiguous range: a `Host <name>` header line and
\* the lines directly after it that are blank or start with a space or tab, up
\* to the first unindented non-blank line or the end of the file.
C4_BlockRemoved ==
    SshDeleteSucceeded =>
        LET lines == readlines(sorig)
        IN  \E i \in 1..Len(lines) :
               /\ IsHeaderOf(lines[i], sargs.name)
               /\ config = Flatten(SubSeq(lines, 1, i - 1)
                                   \o SubSeq(lines, RangeEnd(lines, i), Len(lines)))

\* C5: whatever the config held before (absent, empty, ending without a
\* newline), after add_ssh_config parse_ssh_config yields a profile, the last
\* one, whose Name, HostName, User and Port are the arguments, whose
\* IdentityFile is the argument when one was given, and which has no
\* IdentityFile key when none was.
C5_AddThenParse ==
    (sop = "add" /\ spc = "done") =>
        LET ps == parse_ssh_config(config)
            p == ps[Len(ps)]
        IN  /\ Len(ps) >= 1
            /\ DictGet(p, K_Name) = sargs.name
            /\ HasKey(p, K_HostName) /\ DictGet(p, K_HostName) = sargs.hostname
            /\ HasKey(p, K_User) /\ DictGet(p, K_User) = sargs.user
            /\ HasKey(p, K_Port)
            /\ \A k \in 1..Len(DictGet(p, K_Port)) :
                   \E n \in 1..10 : Digits[n] = DictGet(p, K_Port)[k]
            /\ DecimalValue(DictGet(p, K_Port)) = sargs.port
            /\ IF Truthy(sargs.identity_file)
               THEN /\ HasKey(p, K_IdentityFile)
                    /\ DictGet(p, K_IdentityFile) = sargs.identity_file
               ELSE ~HasKey(p, K_IdentityFile)

C5_Witness ==
    /\ sop = "add" /\ spc = "done"
    /\ sorig # Absent /\ sorig # <<>> /\ sorig[Len(sorig)] # "\n"
    /\ Len(parse_ssh_config(sorig)) >= 1
    /\ HasKey(parse_ssh_config(sorig)[Len(parse_ssh_config(sorig))], K_User)
    /\ sargs.identity_file = None
    /\ Len(parse_ssh_config(config)) = Len(parse_ssh_config(sorig)) + 1

\* C10: delete_ssh_config(name) returns False, writes nothing and leaves the
\* config file as it was whenever no block header is `Host <name>`, the
\* absent file included.
C10_NotFoundUntouched ==
    (sop = "delete" /\ spc = "done") =>
        ((sorig = Absent \/ ~\E i \in 1..Len(readlines(sorig)) :
                                 IsHeaderOf(readlines(sorig)[i], sargs.name)) =>
            /\ sret = "False"
            /\ ~wrote
            /\ config = sorig)

\* ---------------------------------------------------------------------------
\* Properties of the parsers and of the stores across calls
\* ---------------------------------------------------------------------------
\* the entries one line stands for: none for a blank line, a comment or a
\* line of fewer than two tokens, else one per token after the first
LineEntries(line) ==
    LET t == Tokens(line, <<>>)
    IN  IF IsComment(line) \/ Len(t) < 2 THEN <<>>
        ELSE [k \in 1..(Len(t) - 1) |-> [IP |-> t[1], Domain |-> t[k + 1]]]

RefEntries(file) ==
    IF file = Absent THEN <<>>
    ELSE Flatten([k \in 1..Len(readlines(file)) |-> LineEntries(readlines(file)[k])])

IsHostLine(line) ==
    /\ Len(line) >= 5
    /\ [k \in 1..4 |-> Lower(line[k])] = <<"h", "o", "s", "t">>
    /\ line[5] = " "

\* key and value of a directive line: cut at the first space or tab
RefDirective(line) ==
    LET t == strip(line)
        k == CHOOSE i \in 1..Len(t) :
                 t[i] \in {" ", "\t"} /\ \A j \in 1..(i - 1) : t[j] \notin {" ", "\t"}
    IN  <<SubSeq(t, 1, k - 1), strip(SubSeq(t, k + 1, Len(t)))>>

IsDirective(line) ==
    LET t == strip(line)
    IN  /\ t # <<>>
        /\ t[1] # "#"
        /\ \E i \in 1..Len(t) : t[i] \in {" ", "\t"}

\* the profile of the block whose header is line h: the directives of lines
\* h+1..last applied in order, a later key replacing an earlier one
RECURSIVE RefBlock(_, _, _, _)
RefBlock(lines, k, last, info) ==
    IF k > last THEN info
    ELSE RefBlock(lines, k + 1, last,
             IF IsDirective(lines[k])
             THEN DictSet(info, RefDirective(lines[k])[1], RefDirective(lines[k])[2])
             ELSE info)

RefProfiles(file) ==
    IF file = Absent THEN <<>>
    ELSE LET lines == readlines(file)
             heads == {h \in 1..Len(lines) : IsHostLine(lines[h])}
             nth(n) == CHOOSE h \in heads : Cardinality({g \in heads : g < h}) = n - 1
             last(h) == IF \E g \in heads : g > h
                        THEN (CHOOSE g \in heads : g > h /\ \A f \in heads : f > h => g <= f) - 1
                        ELSE Len(lines)
         IN  [n \in 1..Cardinality(heads) |->
                 RefBlock(lines, nth(n) + 1, last(nth(n)),
                          <<<<K_Name, strip(SubSeq(lines[nth(n)], 6, Len(lines[nth(n)])))>>>>)]

\* C12: parse_ssh_config returns, for every config, one profile per line that
\* begins (in any case) with `Host `, in file order, named by the trimmed rest
\* of the line; text before the first header gives nothing; each later
\* non-blank, non-# line of the block is cut at its first space or tab into
\* key and value, a later duplicate key replacing the earlier value.
C12_ParseSshReference ==
    (sop = "view" /\ spc = "done") => profiles = RefProfiles(config)

(***************************************************************************)
(* The key directory (sshkey.py).  ~/.ssh is the directory of the SSH      *)
(* store: it exists when sshDir holds, its entry config is the file config,*)
(* and keyfiles holds its other entries.                                   *)
(***************************************************************************)

MaxDirEntries == 3

PubSuffix == <<".", "p", "u", "b">>
F_config ==
    <<"c", "o", "n", "f", "i", "g">>
F_known_hosts ==
    <<"k", "n", "o", "w", "n", "_", "h", "o", "s", "t", "s">>
F_authorized_keys ==
    <<"a", "u", "t", "h", "o", "r", "i", "z", "e", "d", "_", "k", "e",
      "y", "s">>
id_rsa == <<"i", "d", "_", "r", "s", "a">>
id_ed == <<"e", "d">>
F_pub == <<"p", "u", "b">>

KeyNames ==
    {id_rsa, id_rsa \o PubSuffix, id_ed, id_ed \o PubSuffix,
     F_known_hosts, F_authorized_keys, F_pub}

KeyDirs ==
    UNION {[names -> {"file", "dir"}] :
               names \in {ns \in SUBSET KeyNames : Cardinality(ns) <= MaxDirEntries}}

\* a config file the key directory can hold
SampleConfig == HostWord \o <<" ">> \o web \o <<"\n">>

endswith(s, p) ==
    Len(p) <= Len(s) /\ SubSeq(s, Len(s) - Len(p) + 1, Len(s)) = p

get_ssh_dir == <<"/", "h", "/", ".", "s", "s", "h">>

path_join(dir, file) == dir \o <<"/">> \o file

listdir ==
    DOMAIN keyfiles \cup (IF config = Absent THEN {} ELSE {F_config})

\* os.path.exists and os.path.isfile of a path
exists(path) ==
    /\ sshDir
    /\ \/ path = get_ssh_dir
       \/ \E n \in listdir : path = path_join(get_ssh_dir, n)

isfile(path) ==
    /\ sshDir
    /\ \/ config # Absent /\ path = path_join(get_ssh_dir, F_config)
       \/ \E n \in DOMAIN keyfiles :
              path = path_join(get_ssh_dir, n) /\ keyfiles[n] = "file"

ReservedNames == {F_authorized_keys, F_known_hosts, F_config}

has_public_isfile(file) ==
    isfile(path_join(get_ssh_dir, file \o PubSuffix))

has_public(file) ==
    exists(path_join(get_ssh_dir, file \o PubSuffix))

\* the loop over os.listdir(ssh_dir), files in the order the listing gives
RECURSIVE list_loop(_)
list_loop(files) ==
    IF files = <<>> THEN <<>>
    ELSE LET file == Head(files)
             file_path == path_join(get_ssh_dir, file)
         IN  (IF /\ isfile(file_path)
                 /\ ~endswith(file, PubSuffix)
                 /\ file \notin ReservedNames
              THEN <<[name |-> file, path |-> file_path,
                      has_public |-> has_public(file)]>>
              ELSE <<>>) \o list_loop(Tail(files))

\* the orders in which os.listdir may give the entries
Listings(names) ==
    {f \in [1..Cardinality(names) -> names] :
         \A i, j \in 1..Cardinality(names) : f[i] = f[j] => i = j}

list_ssh_keys ==
    /\ kpc = "idle"
    /\ kop' = "list"
    /\ IF ~sshDir THEN keys' = <<>>
       ELSE \E files \in Listings(listdir) : keys' = list_loop(files)
    /\ kpc' = "done"
    /\ UNCHANGED <<keyfiles, kpath, keygen, details>>
    /\ UNCHANGED <<hvars, svars, xvars>>

\* Python's str.split() with no argument
split(s) == IF strip(s) = <<>> THEN <<>> ELSE re_split_ws(strip(s))

\* Python's s.strip('()')
RECURSIVE strip_parens(_)
strip_parens(s) ==
    IF s = <<>> THEN s
    ELSE IF Head(s) \in {"(", ")"} THEN strip_parens(Tail(s))
    ELSE IF s[Len(s)] \in {"(", ")"} THEN strip_parens(SubSeq(s, 1, Len(s) - 1))
    ELSE s

\* os.path.basename
RECURSIVE basename(_)
basename(path) ==
    IF \A i \in 1..Len(path) : path[i] # "/" THEN path
    ELSE basename(Tail(path))

Unknown == <<"?">>

\* what `ssh-keygen -l -f key_path` can do: raise, or exit with a status and
\* an output
KeygenOutputs ==
    { <<"2", " ", "f", " ", "c", " ", "(", "R", ")", "\n">>,
      <<"2", " ", " ", "f", "\t", "c", " ", "(", "E", ")", " ", "x", "\n">>,
      <<"2", " ", "f", " ", "c", "\n">>,
      <<"\n">>,
      <<>> }

KeygenRuns ==
    {[raised |-> TRUE, returncode |-> 1, stdout |-> <<>>]}
    \cup [raised : {FALSE}, returncode : {0, 1}, stdout : KeygenOutputs]

KeyPaths ==
    {path_join(get_ssh_dir, n) : n \in KeyNames \cup {F_config}}
    \cup {<<"/", "n", "o">>, <<"/", "n", "o">> \o PubSuffix}

Fallback(key_path) ==
    [bits |-> Unknown, fingerprint |-> Unknown,
     comment |-> basename(key_path), type |-> Unknown]

MinParts == 4

Parsed(parts) ==
    [bits |-> parts[1], fingerprint |-> parts[2], comment |-> parts[3],
     type |-> strip_parens(parts[4])]

DetailsOf_anystatus(key_path, run) ==
    IF run.raised THEN Fallback(key_path)
    ELSE IF Len(split(run.stdout)) >= MinParts
         THEN Parsed(split(run.stdout))
         ELSE Fallback(key_path)

\* the value get_key_details returns when ssh-keygen did `run`
DetailsOf(key_path, run) ==
    IF run.raised THEN Fallback(key_path)
    ELSE IF run.returncode = 0 /\ Len(split(run.stdout)) >= MinParts
         THEN Parsed(split(run.stdout))
         ELSE Fallback(key_path)

get_key_details(key_path) ==
    /\ kpc = "idle"
    /\ kop' = "details" /\ kpath' = key_path
    /\ IF ~exists(key_path)
       THEN details' = {} /\ keygen' = NotRun
       ELSE IF endswith(key_path, PubSuffix)
       THEN \E run \in KeygenRuns :
                /\ keygen' = run
                /\ details' = {DetailsOf(key_path, run)}
       ELSE details' = {Fallback(key_path)} /\ keygen' = NotRun
    /\ kpc' = "done"
    /\ UNCHANGED <<keyfiles, keys>>
    /\ UNCHANGED <<hvars, svars, xvars>>

KeyInit ==
    /\ sshDir \in BOOLEAN
    /\ config \in (IF sshDir THEN {Absent, SampleConfig} ELSE {Absent})
    /\ configMode = (IF config = Absent THEN "none" ELSE "0600")
    /\ keyfiles \in (IF sshDir THEN KeyDirs ELSE {<<>>})
    /\ SshAtRest /\ KeysAtRest
    /\ hosts = Absent /\ temp = Absent /\ tempMode = FALSE
    /\ HostsAtRest
    /\ ViewAtRest

KeyNext ==
    \/ list_ssh_keys
    \/ \E key_path \in KeyPaths : get_key_details(key_path)

KeySpec == KeyInit /\ [][KeyNext]_vars

(***************************************************************************)
(* Properties of the key directory                                         *)
(***************************************************************************)

DirNames == KeyNames \cup {F_config}

IsRegularFile(n) ==
    /\ sshDir
    /\ \/ n = F_config /\ config # Absent
       \/ n \in DOMAIN keyfiles /\ keyfiles[n] = "file"

IsDirEntry(n) ==
    sshDir /\ (n \in DOMAIN keyfiles \/ (n = F_config /\ config # Absent))

EndsInPub(n) ==
    /\ Len(n) >= 4
    /\ n[Len(n) - 3] = "." /\ n[Len(n) - 2] = "p"
    /\ n[Len(n) - 1] = "u" /\ n[Len(n)] = "b"

IsKeyFile(n) ==
    /\ IsRegularFile(n)
    /\ ~EndsInPub(n)
    /\ n # F_authorized_keys /\ n # F_known_hosts /\ n # F_config

ExampleDir ==
    /\ sshDir /\ config # Absent
    /\ keyfiles = [n \in {id_rsa, id_rsa \o PubSuffix, F_known_hosts} |-> "file"]

\* C13: list_ssh_keys returns exactly one record for each regular file of the
\* key directory whose name does not end in .pub and is none of
\* authorized_keys, known_hosts, config, and no other record; a record's
\* has_public is true exactly when the directory has an entry <name>.pub; an
\* absent directory gives the empty sequence; the directory holding id_rsa,
\* id_rsa.pub, known_hosts and config gives the one record of id_rsa with
\* has_public true.
C13_ListKeys ==
    (kop = "list" /\ kpc = "done") =>
        /\ ~sshDir => keys = <<>>
        /\ \A i \in 1..Len(keys) : keys[i].name \in DirNames
        /\ \A n \in DirNames :
               Cardinality({i \in 1..Len(keys) : keys[i].name = n})
                   = (IF IsKeyFile(n) THEN 1 ELSE 0)
        /\ \A i \in 1..Len(keys) :
               keys[i].has_public <=> IsDirEntry(keys[i].name \o PubSuffix)
        /\ ExampleDir =>
               /\ Len(keys) = 1
               /\ keys[1].name = id_rsa /\ keys[1].has_public

C13_Witness ==
    /\ kop = "list" /\ kpc = "done"
    /\ ExampleDir
    /\ Len(keys) = 1 /\ keys[1].name = id_rsa /\ keys[1].has_public

\* a second case of C13: a key whose .pub sibling is a directory
C13_DirSibling ==
    /\ kop = "list" /\ kpc = "done"
    /\ \E i \in 1..Len(keys) :
           /\ (keys[i].name \o PubSuffix) \in DOMAIN keyfiles
           /\ keyfiles[keys[i].name \o PubSuffix] = "dir"
           /\ keys[i].has_public

OutTokens(out) ==
    LET RECURSIVE toks(_, _)
        toks(rest, cur) ==
            IF rest = <<>> THEN (IF cur = <<>> THEN <<>> ELSE <<cur>>)
            ELSE IF IsSpace(Head(rest))
                 THEN (IF cur = <<>> THEN <<>> ELSE <<cur>>) \o toks(Tail(rest), <<>>)
                 ELSE toks(Tail(rest), Append(cur, Head(rest)))
    IN  toks(out, <<>>)

NoParens(tok) == SelectSeq(tok, LAMBDA c : c \notin {"(", ")"})

LastComponent(path) ==
    LET k == CHOOSE i \in 0..Len(path) :
                 /\ i > 0 => path[i] = "/"
                 /\ \A j \in (i + 1)..Len(path) : path[j] # "/"
    IN  SubSeq(path, k + 1, Len(path))

PathPresent(path) ==
    \/ sshDir /\ path = get_ssh_dir
    \/ \E n \in DirNames : IsDirEntry(n) /\ path = get_ssh_dir \o <<"/">> \o n

KeygenGaveRecord ==
    /\ EndsInPub(kpath)
    /\ keygen # NotRun
    /\ ~keygen.raised
    /\ keygen.returncode = 0
    /\ Len(OutTokens(keygen.stdout)) >= 4

\* C14: get_key_details(path) returns None exactly when the path does not
\* exist; for an existing path ending in .pub whose ssh-keygen run raised
\* nothing, exited with status 0 and printed at least four tokens it returns
\* bits, fingerprint and comment as tokens 1 to 3 and type as token 4 without
\* its parentheses; for every other existing path (private key, non-zero
\* exit, raised error, fewer than four tokens) it returns the record with
\* bits, fingerprint and type '?' and the base name of the path as comment.
C14_KeyDetails ==
    (kop = "details" /\ kpc = "done") =>
        /\ details = {} <=> ~PathPresent(kpath)
        /\ PathPresent(kpath) /\ KeygenGaveRecord =>
               LET t == OutTokens(keygen.stdout)
               IN  details = {[bits |-> t[1], fingerprint |-> t[2],
                               comment |-> t[3], type |-> NoParens(t[4])]}
        /\ PathPresent(kpath) /\ ~KeygenGaveRecord =>
               details = {[bits |-> <<"?">>, fingerprint |-> <<"?">>,
                           comment |-> LastComponent(kpath), type |-> <<"?">>]}

C14_Witness ==
    /\ kop = "details" /\ kpc = "done"
    /\ kpath = get_ssh_dir \o <<"/">> \o id_rsa \o PubSuffix
    /\ keygen.returncode = 0 /\ Len(OutTokens(keygen.stdout)) >= 5
    /\ details = {[bits |-> <<"2">>, fingerprint |-> <<"f">>,
                   comment |-> <<"c">>, type |-> <<"E">>]}

\* further cases of C14: the fallback after a failed run, and a missing path
C14_FallbackAfterFailure ==
    /\ kop = "details" /\ kpc = "done"
    /\ keygen # NotRun /\ (keygen.raised \/ keygen.returncode # 0)
    /\ details = {[bits |-> <<"?">>, fingerprint |-> <<"?">>,
                   comment |-> id_rsa \o PubSuffix, type |-> <<"?">>]}

C14_MissingPath ==
    /\ kop = "details" /\ kpc = "done"
    /\ sshDir /\ ~PathPresent(kpath) /\ details = {}

(***************************************************************************)
(* Properties across the operations of one store                           *)
(***************************************************************************)

NamesOf(ps) == [i \in 1..Len(ps) |-> DictGet(ps[i], K_Name)]

HasBlockNamed(file, name) ==
    LET names == NamesOf(parse_ssh_config(file))
    IN  \E i \in 1..Len(names) : names[i] = name

\* C15: add_ssh_config called with a name that a parsed block already has
\* completes normally and writes; the previous content is kept unchanged as
\* the beginning of the file; parse_ssh_config afterwards yields the previous
\* profiles, in order, followed by one more profile with that name, so the
\* name occurs once more than before (twice when it occurred once), the
\* earlier profile first.
C15_AddDuplicateName ==
    (sop = "add" /\ spc = "done" /\ HasBlockNamed(sorig, sargs.name)) =>
        LET before == parse_ssh_config(sorig)
            after == parse_ssh_config(config)
            Count(ps) == Len(SelectSeq(ps, LAMBDA q : DictGet(q, K_Name) = sargs.name))
        IN  /\ sret = "None" /\ wrote
            /\ startswith(config, sorig)
            /\ Len(after) = Len(before) + 1
            /\ SubSeq(after, 1, Len(before)) = before
            /\ NamesOf(after)[Len(after)] = sargs.name
            /\ Count(after) = Count(before) + 1
            /\ Count(before) = 1 => Count(after) = 2

C15_Witness ==
    /\ sop = "add" /\ spc = "done"
    /\ sargs.name = web
    /\ NamesOf(parse_ssh_config(sorig)) = <<web>>
    /\ NamesOf(parse_ssh_config(config)) = <<web, web>>
    /\ HasKey(parse_ssh_config(config)[1], K_HostName)
    /\ DictGet(parse_ssh_config(config)[1], K_HostName) # sargs.hostname

\* the lines of a file that are not blank
TextLines(file) ==
    IF file = Absent THEN <<>>
    ELSE SelectSeq(readlines(file), LAMBDA l : Tokens(l, <<>>) # <<>>)

\* every line is blank, a comment, or an IP followed by one domain or more
WellFormed(file) ==
    \A k \in 1..Len(TextLines(file)) :
        IsComment(TextLines(file)[k]) \/ Len(Tokens(TextLines(file)[k], <<>>)) >= 2

\* the groupings the lines of a file make: per entry line its IP and domains
LineGroups(file) ==
    LET ls == SelectSeq(TextLines(file), LAMBDA l : ~IsComment(l))
    IN  [k \in 1..Len(ls) |->
            [IP |-> Head(Tokens(ls[k], <<>>)), Domains |-> Tail(Tokens(ls[k], <<>>))]]

\* parsed entries grouped into IP -> [domains], IPs in order of first
\* appearance, the domains of an IP in entry order
RECURSIVE GroupByIP(_)
GroupByIP(es) ==
    IF es = <<>> THEN <<>>
    ELSE LET same == SelectSeq(es, LAMBDA e : e.IP = es[1].IP)
             rest == SelectSeq(es, LAMBDA e : e.IP # es[1].IP)
         IN  <<[IP |-> es[1].IP, Domains |-> [k \in 1..Len(same) |-> same[k].Domain]]>>
             \o GroupByIP(rest)

\* C16: for every well-formed hosts file, the entries parse_hosts returned,
\* grouped by IP into IP -> [domains], are the groupings of the file's lines:
\* the same groups with the same domains in the same order, also when two
\* lines carry the same IP.
C16_GroupingRoundTrip ==
    (op = "view" /\ pc = "done" /\ WellFormed(orig)) =>
        GroupByIP(shown) = LineGroups(orig)

\* ---------------------------------------------------------------------------
\* Sequences of invocations on the hosts file
\* ---------------------------------------------------------------------------
MaxCalls == 2

\* the tool is run again: a new process, the files as the last one left them
next_call ==
    /\ pc = "done"
    /\ calls + 1 < MaxCalls
    /\ calls' = calls + 1
    /\ pc' = "idle" /\ op' = "none" /\ ip' = <<>> /\ domain' = <<>>
    /\ outcome' = "none" /\ reported' = <<>> /\ orig' = hosts
    /\ log' = <<>> /\ failed' = {}
    /\ shown' = <<>>
    /\ UNCHANGED <<hosts, temp, tempMode>>
    /\ UNCHANGED <<svars, kvars, ext, extText>>

NoDomainTwice(es) ==
    \A a, b \in 1..Len(es) : es[a].Domain = es[b].Domain => a = b

SeqInit ==
    /\ Init
    /\ NoDomainTwice(parse_hosts(hosts))

SeqNext == Next \/ next_call

SeqSpec == SeqInit /\ [][SeqNext]_vars

\* C17: from a hosts file in which parse_hosts yields no domain twice, after
\* every sequence of add_hosts_entry and delete_hosts_entry calls, successful
\* or failing, parse_hosts yields no domain twice; and right after a
\* successful add(ip, d) exactly one parsed entry has Domain d, with IP ip.
C17_DomainUnique ==
    /\ NoDomainTwice(parse_hosts(hosts))
    /\ AddSucceeded =>
           LET es == parse_hosts(hosts)
               at == {k \in 1..Len(es) : es[k].Domain = domain}
           IN  /\ Cardinality(at) = 1
               /\ \A k \in at : es[k].IP = ip

C17_Witness ==
    /\ calls = 1
    /\ AddSucceeded
    /\ temp = Absent
    /\ Len(parse_hosts(orig)) >= 2
    /\ Len(parse_hosts(hosts)) = Len(parse_hosts(orig)) + 1

\* ---------------------------------------------------------------------------
\* Another writer changing a file while an operation runs
\* ---------------------------------------------------------------------------
ExtHostsLine == <<"8", " ">> \o st \o <<"\n">>

ExtConfigBlock == HostWord \o <<" ">> \o web2 \o <<"\n">>

\* the other writer appends to the file or replaces its content
ExternalTexts(file, text) ==
    {text} \cup (IF file = Absent THEN {} ELSE {file \o text})

\* the hosts file is changed before the step at pc runs
external_hosts_write ==
    /\ pc \in {"cp", "chmod", "edit", "mv"}
    /\ ext = "none"
    /\ hosts' \in ExternalTexts(hosts, ExtHostsLine)
    /\ ext' = pc /\ extText' = hosts'
    /\ UNCHANGED <<temp, tempMode, pc, op, ip, domain, outcome, reported, orig, log, failed>>
    /\ UNCHANGED <<svars, kvars, shown, calls>>

\* the SSH config is changed between delete_ssh_config's readlines and its
\* rewrite
external_config_write ==
    /\ spc = "write"
    /\ ext = "none"
    /\ config' \in ExternalTexts(config, ExtConfigBlock)
    /\ ext' = spc /\ extText' = config'
    /\ UNCHANGED <<sshDir, configMode, spc, sop, sargs, sret, sorig, slines, matched,
                   profiles, wrote>>
    /\ UNCHANGED <<hvars, kvars, shown, calls>>

RaceInit == Init \/ SshInit

\* one invocation, of either store, and the other writer
RaceNext ==
    \/ spc = "idle" /\ Next
    \/ pc = "idle" /\ SshNext
    \/ external_hosts_write
    \/ external_config_write

RaceSpec == RaceInit /\ [][RaceNext]_vars

ChangedAfterRead == ext \in {"chmod", "edit", "mv", "write"}

\* C18: when another writer changes the file between an operation's read (the
\* cp of hosts add and delete, the readlines of SSH delete) and its write (the
\* mv, the rewrite), an operation that completes still reports success and
\* the file is then what the operation read with its own edit applied: the
\* other writer's change is gone.
C18_LastWriterWins ==
    /\ (AddSucceeded /\ ChangedAfterRead) =>
           hosts = orig \o <<"\n">> \o ip \o <<"\t">> \o domain \o <<"\n">>
    /\ (DeleteSucceeded /\ ChangedAfterRead) =>
           hosts = Flatten(filter_lines(readlines(orig), domain).new_lines)
    /\ (sop = "delete" /\ spc = "done" /\ ChangedAfterRead) =>
           /\ sret = "True"
           /\ LET lines == readlines(sorig)
                  i == FindHost(lines, sargs.name)
              IN  config = Flatten(DelRange(lines, i, BlockEnd(lines, i)))

C18_Witness ==
    /\ AddSucceeded
    /\ ext = "edit"
    /\ extText = orig \o ExtHostsLine
    /\ ~Contains(ExtHostsLine, hosts)

\* the same for the other two operations
C18_DeleteWitness ==
    /\ DeleteSucceeded /\ ext = "mv" /\ ~Contains(ExtHostsLine, hosts)

C18_SshWitness ==
    /\ sop = "delete" /\ spc = "done" /\ ext = "write" /\ sret = "True"
    /\ extText = sorig \o ExtConfigBlock
    /\ ~Contains(ExtConfigBlock, config)

\* ps without its first profile named name
RemoveFirstNamed(ps, name) ==
    LET at == {i \in 1..Len(ps) : NamesOf(ps)[i] = name}
        k == CHOOSE i \in at : \A m \in at : i <= m
    IN  SubSeq(ps, 1, k - 1) \o SubSeq(ps, k + 1, Len(ps))

\* C19: for every config and every name parse_ssh_config returns for it,
\* delete_ssh_config(name) returns True and parse_ssh_config of the rewritten
\* file returns the earlier profiles without the first one of that name, the
\* others unchanged and in order.
C19_ParseDeleteAgree ==
    (sop = "delete" /\ spc = "done" /\ HasBlockNamed(sorig, sargs.name)) =>
        /\ sret = "True"
        /\ parse_ssh_config(config)
               = RemoveFirstNamed(parse_ssh_config(sorig), sargs.name)

\* C20: after a successful delete_hosts_entry(domain), parse_hosts yields no
\* entry whose Domain is `domain`: it is gone from every line that carried it,
\* also where it stood more than once on a line.
C20_DeletedEverywhere ==
    DeleteSucceeded =>
        \A k \in 1..Len(parse_hosts(hosts)) : parse_hosts(hosts)[k].Domain # domain

C20_Witness ==
    /\ DeleteSucceeded
    /\ Len(LineGroups(orig)) = 2
    /\ \A g \in 1..2 : \E k \in 1..Len(LineGroups(orig)[g].Domains) :
           LineGroups(orig)[g].Domains[k] = domain
    /\ Cardinality({k \in 1..Len(parse_hosts(orig)) :
                        parse_hosts(orig)[k].Domain = domain}) >= 3
    /\ Len(parse_hosts(hosts)) >= 1

====
